---- MODULE Spec2Model ----
(***************************************************************************)
(* RefinerySense real-time pipeline: the reconnecting sensor WebSocket     *)
(* (lib/websocket SensorWebSocket) and the monitoring page that owns it.   *)
(*                                                                         *)
(* A browser WebSocket is modelled by its readyState and by the events the *)
(* WebSocket API delivers to the handlers that connect() installs:         *)
(*   open            CONNECTING -> OPEN                                    *)
(*   message         only while OPEN                                       *)
(*   error + close   a failed handshake or a dropped connection            *)
(*   close           a clean close of an established connection            *)
(* close() moves a CONNECTING or OPEN socket to CLOSING; its close event   *)
(* is delivered later, as a task of its own, to the handlers that are      *)
(* still installed on the socket.                                          *)
(***************************************************************************)
EXTENDS Integers, Sequences, FiniteSets, TLC

\* ------------------------------------------------------------------ bounds
\* SensorWebSocket objects the page constructs (asset selections).
MaxHandles == 3
\* Asset selections in the life of one subscription (SpecSubscription).
MaxSubscriptions == 1
\* Inbound payloads received on one connection.
MaxMessages == 2
\* Assets in the directory; asset ids are 1..NumAssets.
NumAssets == 2
\* Retries per outage that Spec follows on each handle (SpecSubscription
\* follows them all, up to maxReconnectAttempts).
MaxRetriesFollowed == 1
\* SensorWebSocket objects the page constructs in SpecPage.
MaxPageHandles == 2
\* Readings the dashboard's sources produce in SpecPage (live samples and
\* rows of REST responses draw their timestamps from one clock).
MaxSamples == 2
\* Live samples appended to the chart window in SpecWindow.
MaxAppends == 61

Assets == 1..NumAssets

\* --------------------------------------------------------------- constants
\* private maxReconnectAttempts = 5
maxReconnectAttempts == 5
\* Math.min(1000 * Math.pow(2, n), 30000): the base and the cap, in ms.
BaseDelayMs == 1000
MaxDelayMs == 30000
\* updated.slice(-50) and getReadings(selectedAsset, 50): the chart window.
WindowCapacity == 50

VARIABLES
    urlOk,          \* whether new WebSocket(this.url) accepts the URL (FALSE: it throws)
    mounted,        \* the monitoring page is mounted
    selectedAsset,  \* page state selectedAsset; 0 is null
    effectWs,       \* the handle captured by the websocket effect's cleanup; 0 is none
    handles,        \* the SensorWebSocket objects, in construction order
    sockets,        \* per handle: the WebSocket objects it created that are not CLOSED
    realTimeData,   \* page state realTimeData; [asset_id |-> 0] is null
    obs,            \* per handle: what an observer of the handle has seen
    rtStamp,        \* realTimeData.data.reading.timestamp; 0 while realTimeData is null
    rtHealth,       \* realTimeData.data.health: [absent, health_index]
    chartData,      \* page state chartData: rows [asset_id, time], oldest first
    healthScore,    \* page state healthScore: [asset_id, time, health_index]; asset_id 0 is null or undefined
    effectPending,  \* a render with changed realTimeData is due (its effect has not run)
    pendingReadings,\* assets with a getReadings request in flight
    pendingHealth,  \* assets with a getLatestScore request in flight
    clock,          \* timestamps issued so far to live samples
    appendLog,      \* the timestamps of the samples the realTimeData effect appended
    latestHealth,   \* predictive page: healthScores[0], [loaded, rul_days]
    recommendation, \* predictive page: the maintenance recommendation it renders
    twinInput,      \* digital-twin page: [asset_type, scenario, readings]
    twinData,       \* digital-twin page state twinData
    avgDeviation,   \* digital-twin page: avgDeviation, in tenths of a percent
    deviationLabel  \* digital-twin page: the label under the average deviation

pageVars == <<rtStamp, rtHealth, chartData, healthScore, effectPending, pendingReadings,
              pendingHealth, clock, appendLog>>
\* The state of the predictive and digital-twin pages.
viewVars == <<latestHealth, recommendation, twinInput, twinData, avgDeviation,
              deviationLabel>>
vars == <<urlOk, mounted, selectedAsset, effectWs, handles, sockets, realTimeData, obs,
          rtStamp, rtHealth, chartData, healthScore, effectPending, pendingReadings,
          pendingHealth, clock, appendLog, latestHealth, recommendation,
          twinInput, twinData, avgDeviation, deviationLabel>>

Min(a, b) == IF a < b THEN a ELSE b

\* this.ws when it refers to a WebSocket that is CLOSED (all such are alike:
\* close() on them does nothing and no event comes from them).
ClosedRef == -1

\* ----------------------------------------------------------- pure helpers

\* reconnect(): the delay of the reconnect scheduled with the counter at n
\* (the counter is incremented before the delay is computed).
BackoffDelay_uncapped(n) == BaseDelayMs * 2^n
BackoffDelay(n) == Min(BaseDelayMs * 2^n, MaxDelayMs)

\* reconnect(): the guard of the retry branch.
CanReconnect_inclusive(n) == n <= maxReconnectAttempts
CanReconnect(n) == n < maxReconnectAttempts

\* ws.onopen: the value the attempt counter takes.
AttemptsAfterOpen_kept(n) == n
AttemptsAfterOpen(n) == 0

\* Inbound payloads are token sequences. The stream of asset a carries
\* well-formed objects about a and, possibly, malformed text.
AssetDigit(a) == IF a = 1 THEN "1" ELSE IF a = 2 THEN "2" ELSE IF a = 3 THEN "3" ELSE "9"
WellFormedPayload(a) == <<"{", "asset_id", ":", AssetDigit(a), "}">>
TruncatedPayload(a) == <<"{", "asset_id", ":">>
Payloads(a) == {WellFormedPayload(a), TruncatedPayload(a)}

\* JSON.parse(event.data): the parsed object, or a thrown SyntaxError.
JSONParse(p) ==
    IF /\ Len(p) = 5
       /\ p[1] = "{" /\ p[2] = "asset_id" /\ p[3] = ":" /\ p[5] = "}"
       /\ \E a \in Assets : AssetDigit(a) = p[4]
    THEN [ok |-> TRUE, data |-> [asset_id |-> CHOOSE a \in Assets : AssetDigit(a) = p[4]]]
    ELSE [ok |-> FALSE, data |-> [asset_id |-> 0]]

\* ws.onmessage: whether the payload reaches this.onMessage.
Delivers_always(p) == TRUE
Delivers(p) == JSONParse(p).ok

\* WebSocket.close(): a CONNECTING or OPEN socket starts closing; otherwise no effect.
WsClose(s) ==
    IF s.readyState \in {"CONNECTING", "OPEN"}
    THEN [s EXCEPT !.readyState = "CLOSING"]
    ELSE s

\* new WebSocket(url). inbound lists the payloads the socket has received,
\* each with whether ws.onmessage passed it to this.onMessage.
NewSocket == [readyState |-> "CONNECTING", established |-> FALSE, inbound |-> <<>>]

\* The constructor of SensorWebSocket.
NewHandle(a) == [assetId |-> a, ws |-> 0, reconnectAttempts |-> 0, timers |-> <<>>]

\* What an observer of one handle has seen:
\*   disconnectCalled   disconnect() has been called on the handle
\*   failuresSinceOpen  failed connections (close events, constructor
\*                      exceptions) since the last open event
\*   retriesSinceOpen   connect() calls made by timers since the last open event
\*   onErrorCalls       calls of this.onError since the last open event
\*   reopened           an open event has followed at least one failure
\*   gaveUp             reconnect() has logged 'Max reconnection attempts reached'
NewObs == [disconnectCalled |-> FALSE, failuresSinceOpen |-> 0, retriesSinceOpen |-> 0,
           onErrorCalls |-> 0, reopened |-> FALSE, gaveUp |-> FALSE]

\* reconnect() without its setTimeout: the attempt is counted, nothing is scheduled.
Reconnect_unscheduled(hr) ==
    IF CanReconnect(hr.reconnectAttempts)
    THEN [hr EXCEPT !.reconnectAttempts = @ + 1]
    ELSE hr

\* reconnect() on handle record hr: the retry branch schedules connect()
\* after the backoff delay; the other branch only logs.
Reconnect(hr) ==
    IF CanReconnect(hr.reconnectAttempts)
    THEN LET n == hr.reconnectAttempts + 1
         IN  [hr EXCEPT !.reconnectAttempts = n,
                        !.timers = Append(@, BackoffDelay(n))]
    ELSE hr

\* The observer's record after a failure that made handle record hr call
\* reconnect(): one more failure; the handle gave up if reconnect() took its
\* logging branch ('Max reconnection attempts reached').
ObsAfterFailure(o, hr) ==
    [o EXCEPT !.failuresSinceOpen = @ + 1,
              !.gaveUp = @ \/ ~CanReconnect(hr.reconnectAttempts)]

\* disconnect() on handle h: closes this.ws if set and clears the reference.
SocketsAfterDisconnect(hs, ss, h) ==
    IF hs[h].ws > 0 THEN [ss EXCEPT ![h][hs[h].ws] = WsClose(@)] ELSE ss
HandlesAfterDisconnect(hs, h) ==
    IF hs[h].ws # 0 THEN [hs EXCEPT ![h].ws = 0] ELSE hs

RemoveAt(s, i) == [j \in 1..(Len(s) - 1) |-> IF j < i THEN s[j] ELSE s[j + 1]]

\* this.ws after the socket at position i of the handle's sockets is CLOSED
\* and leaves the sequence.
RefAfterClosed(ws, i) == IF ws = i THEN ClosedRef ELSE IF ws > i THEN ws - 1 ELSE ws

\* connect() on handle record hr whose open sockets are ss: the new handle
\* record and sockets. A constructor that throws leads to reconnect().
ConnectHandle(hr, ss) ==
    IF urlOk THEN [hr EXCEPT !.ws = Len(ss) + 1] ELSE Reconnect(hr)
ConnectSockets(ss) ==
    IF urlOk THEN Append(ss, NewSocket) ELSE ss
ConnectObs(o, hr) ==
    IF urlOk THEN o ELSE ObsAfterFailure(o, hr)

\* ws.onerror calling reconnect() as well as ws.onclose.
CloseHandle_twice(hr, i) == Reconnect(Reconnect([hr EXCEPT !.ws = RefAfterClosed(@, i)]))
\* The close event of socket i of handle h: ws.onclose calls reconnect().
CloseHandle(hr, i) == Reconnect([hr EXCEPT !.ws = RefAfterClosed(@, i)])

\* ---------------------------------------------------------------- arrays
Max(a, b) == IF a > b THEN a ELSE b

\* Array.prototype.slice(-n): the last n elements, all of them if there are fewer.
SliceLast(s, n) ==
    LET from == Max(Len(s) - n, 0)
    IN  [k \in 1..(Len(s) - from) |-> s[from + k]]

\* Array.prototype.slice(0, n): the first n elements.
SliceFirst(s, n) == [k \in 1..Min(Len(s), n) |-> s[k]]

Reverse_kept(s) == s
\* Array.prototype.reverse().
Reverse(s) == [k \in 1..Len(s) |-> s[Len(s) + 1 - k]]

\* ------------------------------------------------------ predictive page
\* rul_days is kept in tenths of a day, the resolution of rul_days.toFixed(1).
Tenths == 10
\* The largest rul_days followed, in tenths of a day.
MaxRulTenths == 320

\* HealthScore.rul_days?: a number, or absent (null or undefined).
AbsentRul == [absent |-> TRUE, tenths |-> 0]
RulDays(t) == [absent |-> FALSE, tenths |-> t]
RulValues == {AbsentRul} \cup {RulDays(t) : t \in 0..MaxRulTenths}

\* The truthiness of latestHealth.rul_days in `latestHealth.rul_days && (...)`.
RulTruthy(rul) == ~rul.absent /\ rul.tenths # 0

\* The "Maintenance Recommendation" card of the predictive page: which of
\* its three boxes is rendered, or none when the guard is falsy.
MaintenanceRecommendation(rul) ==
    IF ~RulTruthy(rul) THEN "none"
    ELSE IF rul.tenths < 7 * Tenths THEN "Critical: Immediate Maintenance Required"
    ELSE IF rul.tenths < 30 * Tenths THEN "Warning: Schedule Maintenance Soon"
    ELSE "Normal: No Immediate Action Required"

\* ----------------------------------------------------- digital-twin page
\* Measurements are kept in thousandths of their unit, per-metric deviations
\* in hundredths of a percent, deviation scores in tenths of a percent (the
\* digits of toFixed(1)).

\* Readings in a getReadings response of the digital-twin page.
MaxReadings == 2

\* An optional measurement of a SensorReading: a number, or absent.
Absent == [absent |-> TRUE, v |-> 0]
Num(v) == [absent |-> FALSE, v |-> v]

\* The truthiness of an optional number in `r.temperature ? ... : 0`.
Truthy(m) == ~m.absent /\ m.v # 0

Abs(x) == IF x < 0 THEN -x ELSE x

\* x / y rounded to the nearest integer, halves up (x >= 0, y > 0).
RoundDiv(x, y) == (x + y \div 2) \div y

\* Math.sin(i / den) in ten-thousandths: the argument is reduced to
\* [-pi/2, pi/2] and the series x - x^3/3! + x^5/5! - x^7/7! + x^9/9! is
\* evaluated in nested form (within two ten-thousandths of the true sine).
PiE4 == 31416
SinSeriesE4(x) ==
    LET x2 == RoundDiv(x * x, 10000)
        t4 == 10000 - RoundDiv(x2, 72)
        t3 == 10000 - RoundDiv(RoundDiv(x2 * t4, 10000), 42)
        t2 == 10000 - RoundDiv(RoundDiv(x2 * t3, 10000), 20)
        t1 == 10000 - RoundDiv(RoundDiv(x2 * t2, 10000), 6)
    IN  RoundDiv(x * t1, 10000)
SinE4(i, den) ==
    LET x == RoundDiv(i * 10000, den) % (2 * PiE4)
        y == IF x > PiE4 THEN x - 2 * PiE4 ELSE x
        z == IF 2 * y > PiE4 THEN PiE4 - y
             ELSE IF 2 * y < -PiE4 THEN -PiE4 - y
             ELSE y
    IN  IF z < 0 THEN -SinSeriesE4(-z) ELSE SinSeriesE4(z)

AssetTypes == {"pump", "compressor", "heat_exchanger", "valve"}
Scenarios == {"normal", "load_increase", "load_decrease", "temp_spike"}

BaseValues_fallbackCompressor(type) ==
    IF type = "pump"
    THEN [temp |-> 65000, pressure |-> 2500, vibration |-> 2500, flow |-> 120000]
    ELSE IF type = "heat_exchanger"
    THEN [temp |-> 95000, pressure |-> 4200, vibration |-> 1800, flow |-> 180000]
    ELSE [temp |-> 85000, pressure |-> 8500, vibration |-> 3500, flow |-> 250000]
\* baseValues[asset.asset_type] || baseValues.pump
BaseValues(type) ==
    IF type = "compressor"
    THEN [temp |-> 85000, pressure |-> 8500, vibration |-> 3500, flow |-> 250000]
    ELSE IF type = "heat_exchanger"
    THEN [temp |-> 95000, pressure |-> 4200, vibration |-> 1800, flow |-> 180000]
    ELSE [temp |-> 65000, pressure |-> 2500, vibration |-> 2500, flow |-> 120000]

Multiplier_asChange(sc) ==
    IF sc = "load_increase" THEN 5
    ELSE IF sc = "load_decrease" THEN -3
    ELSE IF sc = "temp_spike" THEN 3
    ELSE 10
Multiplier_spikeAsIncrease(sc) ==
    IF sc = "load_increase" \/ sc = "temp_spike" THEN 15
    ELSE IF sc = "load_decrease" THEN 7
    ELSE 10
\* The scenario's multiplier, in tenths.
Multiplier(sc) ==
    IF sc = "load_increase" THEN 15
    ELSE IF sc = "load_decrease" THEN 7
    ELSE IF sc = "temp_spike" THEN 13
    ELSE 10

\* The rows prepareTwinData keeps: slice(-50).
TwinWindow == 50

\* The sines the map callback computes, for each divisor and each index of
\* the window, computed once.
SinTable ==
    [den \in {8, 10, 12, 15} |->
        [k \in 1..TwinWindow |-> SinE4(k - 1, den)]]

\* base * multiplier + Math.sin(i / den) * amplitude, amplitude in thousandths.
Expected(base, mult, amplitude, i, den) ==
    (base * mult) \div 10 + RoundDiv(amplitude * SinTable[den][i + 1], 10000)

\* r.x ? Math.abs(r.x - expected) / expected * 100 : 0, in hundredths of a percent.
MetricDeviation(actual, expected) ==
    IF Truthy(actual) THEN RoundDiv(Abs(actual.v - expected) * 10000, expected) ELSE 0

\* ((deviationTemp + deviationPressure) / 2).toFixed(1), in tenths of a percent.
DeviationScore(devTemp, devPressure) == RoundDiv(devTemp + devPressure, 20)

\* actualTemp: r.temperature and the like: the reading's property as it is.
ActualOf_orZero(m) == IF m.absent THEN Num(0) ELSE m
ActualOf(m) == m

\* x.toFixed(2) of a value in thousandths: hundredths.
ToFixed2(x) == RoundDiv(x, 10)

\* The row that prepareTwinData's map callback returns for reading r at
\* index i, with the callback's i, deviationTemp and deviationPressure (time
\* is the reading's timestamp, which toLocaleTimeString only formats).
TwinRow(base, mult, r, i) ==
    LET expectedTemp      == Expected(base.temp, mult, 2000, i, 10)
        expectedPressure  == Expected(base.pressure, mult, 200, i, 8)
        expectedVibration == Expected(base.vibration, mult, 300, i, 12)
        expectedFlow      == Expected(base.flow, mult, 10000, i, 15)
        deviationTemp     == MetricDeviation(r.temperature, expectedTemp)
        deviationPressure == MetricDeviation(r.pressure, expectedPressure)
    IN  [time |-> r.timestamp,
         sampleIndex |-> i,
         actualTemp |-> ActualOf(r.temperature),
         expectedTemp |-> ToFixed2(expectedTemp),
         actualPressure |-> ActualOf(r.pressure),
         expectedPressure |-> ToFixed2(expectedPressure),
         actualVibration |-> ActualOf(r.vibration),
         expectedVibration |-> ToFixed2(expectedVibration),
         actualFlow |-> ActualOf(r.flow),
         expectedFlow |-> ToFixed2(expectedFlow),
         deviationScore |-> DeviationScore(deviationTemp, deviationPressure),
         deviationTemp |-> deviationTemp,
         deviationPressure |-> deviationPressure,
         rawExpectedTemp |-> expectedTemp,
         rawExpectedPressure |-> expectedPressure]

\* readings.slice().reverse().slice(-50).map(...)
PrepareTwinData(type, sc, readings) ==
    LET rs == SliceLast(Reverse(readings), TwinWindow)
    IN  [k \in 1..Len(rs) |-> TwinRow(BaseValues(type), Multiplier(sc), rs[k], k - 1)]

RECURSIVE SumScores(_)
SumScores(rows) ==
    IF rows = <<>> THEN 0 ELSE rows[1].deviationScore + SumScores(Tail(rows))

\* avgDeviation: the mean of the rows' parsed deviationScore, toFixed(1); '0'
\* for no rows.
AvgDeviation(rows) ==
    IF Len(rows) > 0 THEN RoundDiv(SumScores(rows), Len(rows)) ELSE 0

\* The label rendered under the average deviation.
DeviationLabel(avg) ==
    IF avg < 100 THEN "Excellent"
    ELSE IF avg < 250 THEN "Good"
    ELSE "Needs Attention"

InitViews ==
    /\ latestHealth = [loaded |-> FALSE, rul_days |-> AbsentRul]
    /\ recommendation = "none"
    /\ twinInput = [asset_type |-> "pump", scenario |-> "normal", readings |-> <<>>,
                    loaded |-> FALSE]
    /\ twinData = <<>>
    /\ avgDeviation = AvgDeviation(<<>>)
    /\ deviationLabel = DeviationLabel(AvgDeviation(<<>>))

\* The health part of a stream message (data.health): absent, or a
\* HealthScore with its health_index.
NoHealth == [absent |-> TRUE, health_index |-> 0]
Health(x) == [absent |-> FALSE, health_index |-> x]

\* The page's healthScore while it is null (before any snapshot) or undefined.
NullHealthScore == [asset_id |-> 0, time |-> 0, health_index |-> 0]

\* -------------------------------------------------------------------- Init
Init ==
    /\ urlOk \in BOOLEAN
    /\ mounted = TRUE
    /\ selectedAsset = 0
    /\ effectWs = 0
    /\ handles = <<>>
    /\ sockets = <<>>
    /\ realTimeData = [asset_id |-> 0]
    /\ obs = <<>>
    /\ rtStamp = 0
    /\ rtHealth = NoHealth
    /\ chartData = <<>>
    /\ healthScore = NullHealthScore
    /\ effectPending = FALSE
    /\ pendingReadings = {}
    /\ pendingHealth = {}
    /\ clock = 0
    /\ appendLog = <<>>
    /\ InitViews

\* ----------------------------------------------------------------- actions

\* setSelectedAsset(a) with a new value (loadAssets' first asset, or the
\* selector's onChange), and the commit of the websocket effect: the cleanup
\* of the previous effect disconnects its handle, then a new SensorWebSocket
\* is constructed and connect() is called on it.
SelectAsset(a) ==
    /\ mounted
    /\ a # selectedAsset
    /\ Len(handles) < MaxHandles
    /\ LET hs1 == IF effectWs # 0 THEN HandlesAfterDisconnect(handles, effectWs) ELSE handles
           ss1 == IF effectWs # 0 THEN SocketsAfterDisconnect(handles, sockets, effectWs)
                                  ELSE sockets
           os1 == IF effectWs # 0 THEN [obs EXCEPT ![effectWs].disconnectCalled = TRUE]
                                  ELSE obs
           nh  == NewHandle(a)
       IN  /\ selectedAsset' = a
           /\ effectWs' = Len(handles) + 1
           /\ handles' = Append(hs1, ConnectHandle(nh, <<>>))
           /\ sockets' = Append(ss1, ConnectSockets(<<>>))
           /\ obs' = Append(os1, ConnectObs(NewObs, nh))
    /\ UNCHANGED <<urlOk, mounted, realTimeData>>

\* The page unmounts: the websocket effect's cleanup runs.
Unmount ==
    /\ mounted
    /\ effectWs # 0
    /\ mounted' = FALSE
    /\ effectWs' = 0
    /\ handles' = HandlesAfterDisconnect(handles, effectWs)
    /\ sockets' = SocketsAfterDisconnect(handles, sockets, effectWs)
    /\ obs' = [obs EXCEPT ![effectWs].disconnectCalled = TRUE]
    /\ UNCHANGED <<urlOk, selectedAsset, realTimeData>>

\* A setTimeout callback of handle h fires: connect().
TimerFires(h, i) ==
    /\ h \in 1..Len(handles)
    /\ i \in 1..Len(handles[h].timers)
    /\ LET hr == [handles[h] EXCEPT !.timers = RemoveAt(@, i)]
           o  == [obs[h] EXCEPT !.retriesSinceOpen = @ + 1]
       IN  /\ handles' = [handles EXCEPT ![h] = ConnectHandle(hr, sockets[h])]
           /\ sockets' = [sockets EXCEPT ![h] = ConnectSockets(@)]
           /\ obs' = [obs EXCEPT ![h] = ConnectObs(o, hr)]
    /\ UNCHANGED <<urlOk, mounted, selectedAsset, effectWs, realTimeData>>

\* The open event of socket i of handle h: ws.onopen.
SocketOpen(h, i) ==
    /\ h \in 1..Len(handles)
    /\ i \in 1..Len(sockets[h])
    /\ sockets[h][i].readyState = "CONNECTING"
    /\ sockets' = [sockets EXCEPT ![h][i].readyState = "OPEN", ![h][i].established = TRUE]
    /\ handles' = [handles EXCEPT ![h].reconnectAttempts = AttemptsAfterOpen(@)]
    /\ obs' = [obs EXCEPT ![h].failuresSinceOpen = 0, ![h].retriesSinceOpen = 0,
                          ![h].onErrorCalls = 0,
                          ![h].reopened = @ \/ obs[h].failuresSinceOpen > 0]
    /\ UNCHANGED <<urlOk, mounted, selectedAsset, effectWs, realTimeData>>

\* A message event of socket i of handle h with payload p: ws.onmessage. The
\* page's onMessage callback is setRealTimeData(data), which React ignores
\* once the page is unmounted.
SocketMessage(h, i, p) ==
    /\ h \in 1..Len(handles)
    /\ i \in 1..Len(sockets[h])
    /\ sockets[h][i].readyState = "OPEN"
    /\ Len(sockets[h][i].inbound) < MaxMessages
    /\ p \in Payloads(handles[h].assetId)
    /\ sockets' = [sockets EXCEPT ![h][i].inbound =
                          Append(@, [payload |-> p, onMessage |-> Delivers(p)])]
    /\ realTimeData' = IF Delivers(p) /\ mounted THEN JSONParse(p).data ELSE realTimeData
    /\ UNCHANGED <<urlOk, mounted, selectedAsset, effectWs, handles, obs>>

\* Socket i of handle h fails: a handshake that does not complete (also
\* after close() on a CONNECTING socket) or an established connection that
\* drops. The error event (ws.onerror, which calls this.onError) is followed
\* by the close event (ws.onclose).
SocketFail(h, i) ==
    /\ h \in 1..Len(handles)
    /\ i \in 1..Len(sockets[h])
    /\ sockets' = [sockets EXCEPT ![h] = RemoveAt(@, i)]
    /\ handles' = [handles EXCEPT ![h] = CloseHandle(@, i)]
    /\ obs' = [obs EXCEPT ![h] =
                  [ObsAfterFailure(@, handles[h]) EXCEPT !.onErrorCalls = @ + 1]]
    /\ UNCHANGED <<urlOk, mounted, selectedAsset, effectWs, realTimeData>>

\* An established socket i of handle h closes cleanly (the server's close,
\* or the close handshake that close() started): the close event alone.
SocketClose(h, i) ==
    /\ h \in 1..Len(handles)
    /\ i \in 1..Len(sockets[h])
    /\ sockets[h][i].established
    /\ sockets' = [sockets EXCEPT ![h] = RemoveAt(@, i)]
    /\ handles' = [handles EXCEPT ![h] = CloseHandle(@, i)]
    /\ obs' = [obs EXCEPT ![h] = ObsAfterFailure(@, handles[h])]
    /\ UNCHANGED <<urlOk, mounted, selectedAsset, effectWs, realTimeData>>

\* Handles, timers of a handle and sockets of a handle are numbered from 1;
\* the guards of the actions keep the indices within what exists.
HandleIds == 1..MaxHandles
SlotIds == 1..(maxReconnectAttempts + 1)

Next ==
    \/ \E a \in Assets : SelectAsset(a) /\ UNCHANGED <<pageVars, viewVars>>
    \/ Unmount /\ UNCHANGED <<pageVars, viewVars>>
    \/ \E h \in HandleIds, i \in SlotIds :
           /\ h <= Len(obs)
           /\ obs[h].retriesSinceOpen < MaxRetriesFollowed
           /\ TimerFires(h, i)
           /\ UNCHANGED <<pageVars, viewVars>>
    \/ \E h \in HandleIds, i \in SlotIds : SocketOpen(h, i) /\ UNCHANGED <<pageVars, viewVars>>
    \/ \E h \in HandleIds, i \in SlotIds : \E a \in Assets : \E p \in Payloads(a) :
           SocketMessage(h, i, p) /\ UNCHANGED <<pageVars, viewVars>>
    \/ \E h \in HandleIds, i \in SlotIds : SocketFail(h, i) /\ UNCHANGED <<pageVars, viewVars>>
    \/ \E h \in HandleIds, i \in SlotIds : SocketClose(h, i) /\ UNCHANGED <<pageVars, viewVars>>

\* The page with the asset switches it can make, up to MaxHandles handles.
Spec == Init /\ [][Next]_vars

\* One subscription from subscribe to the end of its handle: the page selects
\* an asset and keeps it until it unmounts.
NextSubscription ==
    \/ \E a \in Assets :
           Len(handles) < MaxSubscriptions /\ SelectAsset(a) /\ UNCHANGED <<pageVars, viewVars>>
    \/ Unmount /\ UNCHANGED <<pageVars, viewVars>>
    \/ \E h \in HandleIds, i \in SlotIds : TimerFires(h, i) /\ UNCHANGED <<pageVars, viewVars>>
    \/ \E h \in HandleIds, i \in SlotIds : SocketOpen(h, i) /\ UNCHANGED <<pageVars, viewVars>>
    \/ \E h \in HandleIds, i \in SlotIds : \E a \in Assets : \E p \in Payloads(a) :
           SocketMessage(h, i, p) /\ UNCHANGED <<pageVars, viewVars>>
    \/ \E h \in HandleIds, i \in SlotIds : SocketFail(h, i) /\ UNCHANGED <<pageVars, viewVars>>
    \/ \E h \in HandleIds, i \in SlotIds : SocketClose(h, i) /\ UNCHANGED <<pageVars, viewVars>>

SpecSubscription == Init /\ [][NextSubscription]_vars

\* A server that accepts every connection and drops it later: the URL is
\* accepted, every handshake completes, and a socket closes or fails only
\* after its open event.
InitAcceptDrop == Init /\ urlOk = TRUE

NextAcceptDrop ==
    \/ \E a \in Assets :
           Len(handles) < MaxSubscriptions /\ SelectAsset(a) /\ UNCHANGED <<pageVars, viewVars>>
    \/ Unmount /\ UNCHANGED <<pageVars, viewVars>>
    \/ \E h \in HandleIds, i \in SlotIds : TimerFires(h, i) /\ UNCHANGED <<pageVars, viewVars>>
    \/ \E h \in HandleIds, i \in SlotIds : SocketOpen(h, i) /\ UNCHANGED <<pageVars, viewVars>>
    \/ \E h \in HandleIds, i \in SlotIds : \E a \in Assets : \E p \in Payloads(a) :
           SocketMessage(h, i, p) /\ UNCHANGED <<pageVars, viewVars>>
    \/ \E h \in HandleIds, i \in SlotIds :
           /\ h <= Len(handles)
           /\ i <= Len(sockets[h])
           /\ sockets[h][i].established
           /\ SocketFail(h, i)
           /\ UNCHANGED <<pageVars, viewVars>>
    \/ \E h \in HandleIds, i \in SlotIds : SocketClose(h, i) /\ UNCHANGED <<pageVars, viewVars>>

SpecAcceptDrop == InitAcceptDrop /\ [][NextAcceptDrop]_vars

\* ------------------------------------------------------- the page's data

\* The updater the realTimeData effect passes to setChartData:
\* [...prev, newData].slice(-50).
AppendWindow_head(prev, newData) == SliceFirst(Append(prev, newData), WindowCapacity)
AppendWindow(prev, newData) == SliceLast(Append(prev, newData), WindowCapacity)

\* newData of the realTimeData effect: the reading's time and measurements.
\* The measurements are stood for by the asset whose stream produced them.
NewData(rt, stamp) == [asset_id |-> rt.asset_id, time |-> stamp]

\* realTimeData.data.health: the health snapshot that came with the reading,
\* undefined if the message carried none.
HealthOf(rt, stamp, health) ==
    IF health.absent THEN NullHealthScore
    ELSE [asset_id |-> rt.asset_id, time |-> stamp, health_index |-> health.health_index]

\* The body of the realTimeData effect when it runs with selected asset sel.
ChartAfterEffect(sel, rt, stamp, chart) ==
    IF sel # 0 /\ rt.asset_id # 0 THEN AppendWindow(chart, NewData(rt, stamp)) ELSE chart
HealthAfterEffect(sel, rt, stamp, health, hs) ==
    IF sel # 0 /\ rt.asset_id # 0 THEN HealthOf(rt, stamp, health) ELSE hs
LogAfterEffect(sel, rt, stamp, log) ==
    IF sel # 0 /\ rt.asset_id # 0 THEN Append(log, stamp) ELSE log

\* The response of getReadings(a, 50) with n rows at time now: the latest
\* readings of asset a, newest first.
ReadingsResponse(a, n, now) == [k \in 1..n |-> [asset_id |-> a, time |-> now + 1 - k]]

\* Rows a getReadings response carries in SpecPage.
MaxLoaded == 2

\* Live samples followed in SpecHealth.
MaxHealthSamples == 8

\* A commit with a new selectedAsset: the effects that depend on it run in
\* the order of their declaration: loadReadings() and loadHealthScore() send
\* their requests, the realTimeData effect runs with the realTimeData of the
\* render, and the websocket effect replaces the handle.
PageSelectAsset(a) ==
    /\ SelectAsset(a)
    /\ pendingReadings' = pendingReadings \cup {a}
    /\ pendingHealth' = pendingHealth \cup {a}
    /\ chartData' = ChartAfterEffect(a, realTimeData, rtStamp, chartData)
    /\ healthScore' = HealthAfterEffect(a, realTimeData, rtStamp, rtHealth, healthScore)
    /\ appendLog' = LogAfterEffect(a, realTimeData, rtStamp, appendLog)
    /\ effectPending' = FALSE
    /\ UNCHANGED <<rtStamp, rtHealth, clock>>

\* A message event on the page: ws.onmessage, and setRealTimeData(data) for
\* a payload that parses, which makes a render due. health is the health
\* part of the parsed message.
PageMessage(h, i, p, health) ==
    /\ clock < MaxSamples
    /\ SocketMessage(h, i, p)
    /\ IF Delivers(p) /\ mounted
       THEN /\ clock' = clock + 1
            /\ rtStamp' = clock + 1
            /\ rtHealth' = health
            /\ effectPending' = TRUE
       ELSE UNCHANGED <<clock, rtStamp, rtHealth, effectPending>>
    /\ UNCHANGED <<chartData, healthScore, pendingReadings, pendingHealth, appendLog>>

\* The render with the changed realTimeData commits and its effect runs.
RealTimeEffect ==
    /\ mounted
    /\ effectPending
    /\ effectPending' = FALSE
    /\ chartData' = ChartAfterEffect(selectedAsset, realTimeData, rtStamp, chartData)
    /\ healthScore' = HealthAfterEffect(selectedAsset, realTimeData, rtStamp, rtHealth, healthScore)
    /\ appendLog' = LogAfterEffect(selectedAsset, realTimeData, rtStamp, appendLog)
    /\ UNCHANGED <<urlOk, mounted, selectedAsset, effectWs, handles, sockets,
                   realTimeData, obs, rtStamp, rtHealth, pendingReadings, pendingHealth, clock>>

\* The getReadings request of loadReadings() for asset a resolves with n
\* rows: setChartData of the rows in chronological order. React ignores the
\* update once the page is unmounted.
ReadingsLoaded(a, n) ==
    /\ a \in pendingReadings
    /\ n \in 0..Min(MaxLoaded, WindowCapacity)
    /\ pendingReadings' = pendingReadings \ {a}
    /\ chartData' = IF mounted THEN Reverse(ReadingsResponse(a, n, clock)) ELSE chartData
    /\ UNCHANGED <<urlOk, mounted, selectedAsset, effectWs, handles, sockets,
                   realTimeData, obs, rtStamp, rtHealth, healthScore, effectPending,
                   pendingHealth, clock, appendLog>>

\* The getLatestScore request of loadHealthScore() for asset a resolves
\* with a score whose health_index is x: setHealthScore(response.data).
HealthLoaded(a, x) ==
    /\ a \in pendingHealth
    /\ pendingHealth' = pendingHealth \ {a}
    /\ healthScore' = IF mounted THEN [asset_id |-> a, time |-> clock, health_index |-> x]
                      ELSE healthScore
    /\ UNCHANGED <<urlOk, mounted, selectedAsset, effectWs, handles, sockets,
                   realTimeData, obs, rtStamp, rtHealth, chartData, effectPending,
                   pendingReadings, clock, appendLog>>

\* A request of loadReadings() or loadHealthScore() fails: the catch logs.
LoadFailed(a) ==
    /\ a \in pendingReadings \cup pendingHealth
    /\ \/ a \in pendingReadings /\ pendingReadings' = pendingReadings \ {a}
                                /\ UNCHANGED pendingHealth
       \/ a \in pendingHealth /\ pendingHealth' = pendingHealth \ {a}
                              /\ UNCHANGED pendingReadings
    /\ UNCHANGED <<urlOk, mounted, selectedAsset, effectWs, handles, sockets,
                   realTimeData, obs, rtStamp, rtHealth, chartData, healthScore,
                   effectPending, clock, appendLog>>

\* The health_index values of the scores the server may send (the type is
\* `number`), in percent, and the health parts of its stream messages.
NominalHealthIndex == 85
HealthIndexValues == {NominalHealthIndex, 150}
HealthPayloads == {NoHealth} \cup {Health(x) : x \in HealthIndexValues}

\* The monitoring page with its data: the websocket handles, the REST
\* loads and the realTimeData effect, up to MaxPageHandles handles. The page
\* is followed while no retry timer is due (the first one is due 2 s after
\* a failure) and with scores that carry the nominal health_index; Spec and
\* SpecSubscription follow the retries, SpecHealth the other scores.
NextPage ==
    \/ \E a \in Assets :
           Len(handles) < MaxPageHandles /\ PageSelectAsset(a) /\ UNCHANGED viewVars
    \/ Unmount /\ UNCHANGED <<pageVars, viewVars>>
    \/ \E h \in HandleIds, i \in SlotIds : SocketOpen(h, i) /\ UNCHANGED <<pageVars, viewVars>>
    \/ \E h \in HandleIds, i \in SlotIds : \E a \in Assets : \E p \in Payloads(a) :
           PageMessage(h, i, p, Health(NominalHealthIndex)) /\ UNCHANGED viewVars
    \/ \E h \in HandleIds, i \in SlotIds : SocketFail(h, i) /\ UNCHANGED <<pageVars, viewVars>>
    \/ \E h \in HandleIds, i \in SlotIds : SocketClose(h, i) /\ UNCHANGED <<pageVars, viewVars>>
    \/ RealTimeEffect /\ UNCHANGED viewVars
    \/ \E a \in Assets, n \in 0..MaxLoaded : ReadingsLoaded(a, n) /\ UNCHANGED viewVars
    \/ \E a \in Assets : HealthLoaded(a, NominalHealthIndex) /\ UNCHANGED viewVars
    \/ \E a \in Assets : LoadFailed(a) /\ UNCHANGED viewVars

SpecPage == Init /\ [][NextPage]_vars

\* The chart window by itself: the page has an asset selected and live
\* samples of that asset are appended one by one, numbered in arrival order.
InitWindow ==
    /\ urlOk = TRUE
    /\ mounted = TRUE
    /\ selectedAsset \in Assets
    /\ effectWs = 0
    /\ handles = <<>>
    /\ sockets = <<>>
    /\ realTimeData = [asset_id |-> 0]
    /\ obs = <<>>
    /\ rtStamp = 0
    /\ rtHealth = NoHealth
    /\ chartData = <<>>
    /\ healthScore = NullHealthScore
    /\ effectPending = FALSE
    /\ pendingReadings = {}
    /\ pendingHealth = {}
    /\ clock = 0
    /\ appendLog = <<>>
    /\ InitViews

\* setRealTimeData(data) with the next sample of the selected asset, whose
\* health part is health, and the realTimeData effect of the render that
\* follows.
StreamSample(health) ==
    /\ clock < MaxAppends
    /\ clock' = clock + 1
    /\ rtStamp' = clock + 1
    /\ realTimeData' = [asset_id |-> selectedAsset]
    /\ rtHealth' = health
    /\ chartData' = ChartAfterEffect(selectedAsset, realTimeData', rtStamp', chartData)
    /\ healthScore' = HealthAfterEffect(selectedAsset, realTimeData', rtStamp', rtHealth', healthScore)
    /\ appendLog' = LogAfterEffect(selectedAsset, realTimeData', rtStamp', appendLog)
    /\ UNCHANGED <<urlOk, mounted, selectedAsset, effectWs, handles, sockets, obs,
                   effectPending, pendingReadings, pendingHealth>>

AppendSample == StreamSample(Health(NominalHealthIndex))

NextWindow == AppendSample /\ UNCHANGED viewVars

SpecWindow == InitWindow /\ [][NextWindow]_vars

\* The health snapshot by itself: an asset is selected, its history has
\* arrived empty and its getLatestScore request is in flight; live samples
\* arrive with or without a health part and the request resolves or fails.
InitHealth ==
    /\ urlOk = TRUE
    /\ mounted = TRUE
    /\ selectedAsset \in Assets
    /\ effectWs = 0
    /\ handles = <<>>
    /\ sockets = <<>>
    /\ realTimeData = [asset_id |-> 0]
    /\ obs = <<>>
    /\ rtStamp = 0
    /\ rtHealth = NoHealth
    /\ chartData = <<>>
    /\ healthScore = NullHealthScore
    /\ effectPending = FALSE
    /\ pendingReadings = {}
    /\ pendingHealth = {selectedAsset}
    /\ clock = 0
    /\ appendLog = <<>>
    /\ InitViews

NextHealth ==
    \/ \E health \in HealthPayloads :
           clock < MaxHealthSamples /\ StreamSample(health) /\ UNCHANGED viewVars
    \/ \E a \in Assets, x \in HealthIndexValues : HealthLoaded(a, x) /\ UNCHANGED viewVars
    \/ \E a \in Assets : LoadFailed(a) /\ UNCHANGED viewVars

SpecHealth == InitHealth /\ [][NextHealth]_vars

\* loadHealthScores() of the predictive page resolves with a latest score
\* whose rul_days is rul, and the page renders.
LoadHealthScores(rul) ==
    /\ rul \in RulValues
    /\ latestHealth' = [loaded |-> TRUE, rul_days |-> rul]
    /\ recommendation' = MaintenanceRecommendation(rul)
    /\ UNCHANGED <<urlOk, mounted, selectedAsset, effectWs, handles, sockets,
                   realTimeData, obs, pageVars, twinInput, twinData, avgDeviation,
                   deviationLabel>>

NextPredictive == \E rul \in RulValues : LoadHealthScores(rul)

\* The predictive page with the latest health scores it may load.
SpecPredictive == Init /\ [][NextPredictive]_vars

\* The readings the digital-twin page may be given: temperature, pressure,
\* vibration and flow are each a number or absent.
TemperatureValues == {Absent, Num(0), Num(65000), Num(97500)}
PressureValues == {Absent, Num(2500), Num(9000)}
OtherValues == {[vibration |-> Absent, flow |-> Absent],
                [vibration |-> Num(9000), flow |-> Num(500000)]}
ReadingValues ==
    {[temperature |-> t, pressure |-> q, vibration |-> o.vibration, flow |-> o.flow] :
        t \in TemperatureValues, q \in PressureValues, o \in OtherValues}

\* Reading v of a response with its timestamp.
Stamped(v, t) ==
    [timestamp |-> t, temperature |-> v.temperature, pressure |-> v.pressure,
     vibration |-> v.vibration, flow |-> v.flow]

\* A getReadings response of n readings, newest first: the reading at
\* position j was taken at time n + 1 - j.
Response(f) == [j \in 1..Len(f) |-> Stamped(f[j], Len(f) + 1 - j)]
ReadingLists == UNION {{Response(f) : f \in [1..n -> ReadingValues]} : n \in 0..MaxReadings}

\* Longer histories, up to and beyond the 50 rows the page keeps
\* (getReadings(selectedAsset, 100) returns at most 100): the same
\* measurements at every time.
MaxHistory == 52
SteadyReading ==
    [temperature |-> Num(65000), pressure |-> Num(2500), vibration |-> Absent,
     flow |-> Absent]
HistoryLists == {Response([j \in 1..n |-> SteadyReading]) : n \in (MaxReadings + 1)..MaxHistory}

\* The digital-twin page before its readings arrive: an asset of some type
\* is selected and the server holds some readings for it, newest first.
InitTwin ==
    /\ urlOk = TRUE
    /\ mounted = TRUE
    /\ selectedAsset = 0
    /\ effectWs = 0
    /\ handles = <<>>
    /\ sockets = <<>>
    /\ realTimeData = [asset_id |-> 0]
    /\ obs = <<>>
    /\ rtStamp = 0
    /\ rtHealth = NoHealth
    /\ chartData = <<>>
    /\ healthScore = NullHealthScore
    /\ effectPending = FALSE
    /\ pendingReadings = {}
    /\ pendingHealth = {}
    /\ clock = 0
    /\ appendLog = <<>>
    /\ latestHealth = [loaded |-> FALSE, rul_days |-> AbsentRul]
    /\ recommendation = "none"
    /\ twinInput \in [asset_type : AssetTypes, scenario : {"normal"},
                      readings : ReadingLists \cup HistoryLists, loaded : {FALSE}]
    /\ twinData = <<>>
    /\ avgDeviation = AvgDeviation(<<>>)
    /\ deviationLabel = DeviationLabel(AvgDeviation(<<>>))

\* loadReadings() of the digital-twin page resolves: setReadings and
\* prepareTwinData(response.data), and the page renders.
LoadTwinReadings ==
    /\ ~twinInput.loaded
    /\ twinInput' = [twinInput EXCEPT !.loaded = TRUE]
    /\ twinData' = PrepareTwinData(twinInput.asset_type, twinInput.scenario,
                                   twinInput.readings)
    /\ avgDeviation' = AvgDeviation(twinData')
    /\ deviationLabel' = DeviationLabel(avgDeviation')
    /\ UNCHANGED <<urlOk, mounted, selectedAsset, effectWs, handles, sockets,
                   realTimeData, obs, pageVars, latestHealth, recommendation>>

\* A scenario button is clicked: the effect on [scenario, selectedAsset,
\* readings] calls prepareTwinData(readings) if there are readings.
SetScenario(sc) ==
    /\ twinInput.loaded
    /\ sc \in Scenarios
    /\ sc # twinInput.scenario
    /\ twinInput' = [twinInput EXCEPT !.scenario = sc]
    /\ twinData' = IF Len(twinInput.readings) > 0
                   THEN PrepareTwinData(twinInput.asset_type, sc, twinInput.readings)
                   ELSE twinData
    /\ avgDeviation' = AvgDeviation(twinData')
    /\ deviationLabel' = DeviationLabel(avgDeviation')
    /\ UNCHANGED <<urlOk, mounted, selectedAsset, effectWs, handles, sockets,
                   realTimeData, obs, pageVars, latestHealth, recommendation>>

NextTwin ==
    \/ LoadTwinReadings
    \/ \E sc \in Scenarios : SetScenario(sc)

\* The digital-twin page over the readings it may be given.
SpecTwin == InitTwin /\ [][NextTwin]_vars

\* ------------------------------------------------------------------ claims

HandleSet == 1..Len(handles)

\* The calls of this.onMessage recorded on the sockets ss of one handle.
OnMessageCalls(ss) ==
    LET RECURSIVE Count(_, _)
        Count(i, j) ==
            IF i = 0 THEN 0
            ELSE IF j = 0 THEN Count(i - 1, IF i = 1 THEN 0 ELSE Len(ss[i - 1].inbound))
            ELSE (IF ss[i].inbound[j].onMessage THEN 1 ELSE 0) + Count(i, j - 1)
    IN  IF Len(ss) = 0 THEN 0 ELSE Count(Len(ss), Len(ss[Len(ss)].inbound))

\* In this step socket i of handle h receives a payload.
Receives(h, i) ==
    /\ i \in 1..Len(sockets[h])
    /\ Len(sockets'[h]) = Len(sockets[h])
    /\ Len(sockets'[h][i].inbound) = Len(sockets[h][i].inbound) + 1

\* The payload socket i of handle h receives in this step, as logged.
Received(h, i) == sockets'[h][i].inbound[Len(sockets'[h][i].inbound)]

Malformed(p) == \E a \in Assets : p = TruncatedPayload(a)

\* C1: after disconnect() has been called on a handle, the handle makes no
\* further connection attempt: no timer of the handle fires into connect()
\* and no reconnect is scheduled for it.
C1_NoReconnectAfterDisconnect ==
    [][\A h \in HandleSet :
          obs[h].disconnectCalled =>
              /\ obs'[h].retriesSinceOpen # obs[h].retriesSinceOpen + 1
              /\ Len(sockets'[h]) <= Len(sockets[h])
              /\ Len(handles'[h].timers) <= Len(handles[h].timers)]_vars

\* C2: once disconnect() has returned for a handle, neither its onMessage
\* nor its onError callback is invoked again.
C2_NoCallbackAfterDisconnect ==
    [][\A h \in HandleSet :
          obs[h].disconnectCalled =>
              /\ OnMessageCalls(sockets'[h]) # OnMessageCalls(sockets[h]) + 1
              /\ obs'[h].onErrorCalls # obs[h].onErrorCalls + 1]_vars

\* C3: in every reachable state at most one WebSocket that is connecting or
\* open exists per asset id.
C3_OneLiveConnectionPerAsset ==
    \A a \in Assets :
        Cardinality({x \in HandleSet \X SlotIds :
                        /\ handles[x[1]].assetId = a
                        /\ x[2] <= Len(sockets[x[1]])
                        /\ sockets[x[1]][x[2]].readyState \in {"CONNECTING", "OPEN"}}) <= 1

\* C4: after 6 consecutive failures with no open in between the handle has
\* made exactly 5 retries and has neither a pending timer nor a socket, and
\* no state with a 7th consecutive failure or a 6th retry is reachable.
C4_StopsAfterFiveRetries ==
    \A h \in HandleSet :
        /\ obs[h].failuresSinceOpen <= 6
        /\ obs[h].retriesSinceOpen <= 5
        /\ obs[h].failuresSinceOpen = 6 =>
              /\ obs[h].retriesSinceOpen = 5
              /\ handles[h].timers = <<>>
              /\ sockets[h] = <<>>

\* C4 witness: a handle whose 6 consecutive connections failed as sockets.
C4_SixFailures ==
    \E h \in HandleSet : urlOk /\ obs[h].failuresSinceOpen = 6 /\ obs[h].gaveUp

\* C5: the step in which a handle exhausts its attempts delivers exactly one
\* call of the caller's error callback.
C5_ExhaustionNotifiesOnce ==
    [][\A h \in HandleSet :
          (~obs[h].gaveUp /\ obs'[h].gaveUp) =>
              obs'[h].onErrorCalls = obs[h].onErrorCalls + 1]_vars

\* C6: a reconnect is pending only after failure number 1..5 since the last
\* open, and its delay is 2000, 4000, 8000, 16000, 30000 ms for failure
\* number 1, 2, 3, 4, 5.
C6_BackoffDelays ==
    \A h \in HandleSet :
        \A i \in 1..Len(handles[h].timers) :
            /\ obs[h].failuresSinceOpen \in 1..5
            /\ handles[h].timers[i] =
                   <<2000, 4000, 8000, 16000, 30000>>[obs[h].failuresSinceOpen]

\* C6 witness: the reconnect after the 5th failure is pending, with the capped delay.
C6_FifthBackoffPending ==
    \E h \in HandleSet :
        urlOk /\ obs[h].failuresSinceOpen = 5 /\ handles[h].timers = <<30000>>

\* C7: the attempt counter is the number of failures since the last open
\* (capped at 5): it is 0 while a connection is open, and the first failure
\* after an open is retried after 2000 ms whatever preceded the open.
C7_OpenResetsAttempts ==
    \A h \in HandleSet :
        /\ handles[h].reconnectAttempts = Min(obs[h].failuresSinceOpen, 5)
        /\ (\E i \in 1..Len(sockets[h]) : sockets[h][i].readyState = "OPEN") =>
               handles[h].reconnectAttempts = 0
        /\ (obs[h].failuresSinceOpen = 1 /\ handles[h].timers # <<>>) =>
               handles[h].timers = <<2000>>

\* C7 witness: failures, then an open, then the first failure after it,
\* whose reconnect is pending.
C7_FirstFailureAfterReopen ==
    \E h \in HandleSet :
        /\ obs[h].reopened
        /\ obs[h].failuresSinceOpen = 1
        /\ handles[h].reconnectAttempts = 1
        /\ handles[h].timers = <<2000>>

\* C8: a step that receives a malformed payload does not call onMessage and
\* changes nothing but the socket's record of the payload: the connection
\* stays open, the attempt counter and the timers are unchanged; a step that
\* receives a well-formed payload calls onMessage, also after a malformed one.
C8_MalformedPayloadDropped ==
    [][\A h \in HandleSet : \A i \in SlotIds :
          Receives(h, i) =>
              IF Malformed(Received(h, i).payload)
              THEN /\ ~Received(h, i).onMessage
                   /\ sockets'[h][i].readyState = "OPEN"
                   /\ handles' = handles
                   /\ realTimeData' = realTimeData
                   /\ obs'[h].failuresSinceOpen = obs[h].failuresSinceOpen
                   /\ obs'[h].retriesSinceOpen = obs[h].retriesSinceOpen
              ELSE /\ Received(h, i).onMessage
                   /\ mounted => realTimeData'.asset_id = handles[h].assetId]_vars

\* C8 witness: an open connection on which a malformed payload was dropped
\* and a later well-formed payload was delivered.
C8_DeliveredAfterDrop ==
    \E h \in HandleSet : \E i \in 1..Len(sockets[h]) :
        /\ sockets[h][i].readyState = "OPEN"
        /\ Len(sockets[h][i].inbound) = 2
        /\ Malformed(sockets[h][i].inbound[1].payload)
        /\ ~sockets[h][i].inbound[1].onMessage
        /\ sockets[h][i].inbound[2].onMessage
        /\ realTimeData.asset_id = handles[h].assetId

\* C9: a step that receives a malformed payload calls the caller's error
\* callback exactly once.
C9_ParseFailureReported ==
    [][\A h \in HandleSet : \A i \in SlotIds :
          (Receives(h, i) /\ Malformed(Received(h, i).payload)) =>
              obs'[h].onErrorCalls = obs[h].onErrorCalls + 1]_vars

\* C10: the caller's error callback is called for a transport failure only
\* in the step in which the handle exhausts its attempts.
C10_NoErrorCallbackWhileRetrying ==
    [][\A h \in HandleSet :
          obs'[h].onErrorCalls = obs[h].onErrorCalls + 1 => obs'[h].gaveUp]_vars


\* The connection state of a handle, read off its sockets and timers: an open
\* socket is Connected, a socket in its handshake is Connecting, a pending
\* retry timer is Backoff, anything else (also a socket that close() has put
\* into CLOSING) is Disconnected.
ConnStateOf(hr, ss) ==
    IF \E i \in 1..Len(ss) : ss[i].readyState = "OPEN" THEN "Connected"
    ELSE IF \E i \in 1..Len(ss) : ss[i].readyState = "CONNECTING" THEN "Connecting"
    ELSE IF hr.timers # <<>> THEN "Backoff"
    ELSE "Disconnected"

\* The connection state of handle h before and after this step; a handle
\* constructed in this step was Disconnected before it.
ConnStateBefore(h) ==
    IF h <= Len(handles) THEN ConnStateOf(handles[h], sockets[h]) ELSE "Disconnected"
ConnStateAfter(h) == ConnStateOf(handles'[h], sockets'[h])

ListedTransitions ==
    { <<"Disconnected", "Connecting">>, <<"Connecting", "Connected">>,
      <<"Connected", "Backoff">>, <<"Backoff", "Connecting">>,
      <<"Backoff", "Disconnected">> }

\* The statement of C11 as written: every change of a handle's connection
\* state is one of the five listed transitions.
C11_OnlyListedTransitions ==
    [][\A h \in 1..Len(handles') :
          \/ ConnStateBefore(h) = ConnStateAfter(h)
          \/ <<ConnStateBefore(h), ConnStateAfter(h)>> \in ListedTransitions]_vars

\* C11 (amended): until disconnect() is called on a handle, its connection
\* state changes only along the five listed transitions and along
\* Disconnected -> Backoff (connect() whose constructor throws),
\* Connecting -> Backoff (the handshake fails, retries remain) and
\* Connecting -> Disconnected (the handshake fails, attempts exhausted); a
\* change to Disconnected happens only when reconnect() has given up.
C11_ConnectionStateTransitions ==
    [][\A h \in 1..Len(handles') :
          ~obs'[h].disconnectCalled =>
              \/ ConnStateBefore(h) = ConnStateAfter(h)
              \/ /\ <<ConnStateBefore(h), ConnStateAfter(h)>> \in
                        ListedTransitions \cup
                            { <<"Disconnected", "Backoff">>, <<"Connecting", "Backoff">>,
                              <<"Connecting", "Disconnected">> }
                 /\ ConnStateAfter(h) = "Disconnected" => obs'[h].gaveUp]_vars

\* A handle that was never disconnected has been Connected, has lost the
\* connection, and has come to rest in Disconnected after its retries.
C11_ExhaustedAfterReopen ==
    \E h \in HandleSet :
        /\ ~obs[h].disconnectCalled
        /\ obs[h].reopened
        /\ obs[h].gaveUp
        /\ ConnStateOf(handles[h], sockets[h]) = "Disconnected"


\* C12: after n appends of live samples to the chart window, the window
\* holds exactly the min(n, 50) most recently appended samples, oldest
\* first, and never more than 50.
C12_WindowKeepsMostRecent ==
    /\ Len(chartData) = Min(clock, WindowCapacity)
    /\ Len(chartData) <= WindowCapacity
    /\ \A k \in 1..Len(chartData) :
           chartData[k] = [asset_id |-> selectedAsset,
                           time |-> clock - Len(chartData) + k]

\* Sixty samples have been appended: the window holds samples 11 to 60.
C12_SixtyAppended ==
    /\ clock = 60
    /\ Len(chartData) = 50
    /\ chartData[1].time = 11
    /\ chartData[50].time = 60


\* C13: every sample the transport decodes and hands to onMessage is appended
\* to the window exactly once and in arrival order: the samples the effect
\* has appended are samples 1, 2, ... without gap or repetition, and once no
\* render is due they are all the samples delivered.
C13_EverySampleAppendedOnce ==
    /\ \A k \in 1..Len(appendLog) : appendLog[k] = k
    /\ (mounted /\ ~effectPending) => Len(appendLog) = clock

\* C14: while an asset is selected, what the realTimeData effect appends to
\* the window and sets as the health snapshot comes from that asset's stream.
C14_NoDataOfAnotherAsset ==
    [][appendLog' # appendLog =>
          /\ chartData'[Len(chartData')].asset_id = selectedAsset'
          /\ healthScore'.asset_id = selectedAsset']_vars


\* C15: for every rul_days of the latest health snapshot, 0 and absent
\* included, exactly one classification is rendered: critical below 7 days,
\* warning from 7 to below 30 days, informational from 30 days or when absent.
C15_OneClassificationForEveryRul ==
    latestHealth.loaded =>
        recommendation =
            IF latestHealth.rul_days.absent
            THEN "Normal: No Immediate Action Required"
            ELSE IF latestHealth.rul_days.tenths < 7 * Tenths
            THEN "Critical: Immediate Maintenance Required"
            ELSE IF latestHealth.rul_days.tenths < 30 * Tenths
            THEN "Warning: Schedule Maintenance Soon"
            ELSE "Normal: No Immediate Action Required"


\* The reading that row k of twinData was computed from.
ReadingOfRow(k) == twinInput.readings[Len(twinInput.readings) + 1 - k]

\* |actual - expected| / expected * 100, in hundredths of a percent.
RelativeDeviation(actual, expected) == RoundDiv(Abs(actual - expected) * 10000, expected)

\* C16: the deviation label is a function of the deviation d alone: below 10
\* 'Excellent', from 10 to 25 inclusive 'Good', above 25 'Needs Attention'.
C16_DeviationLabelBands ==
    twinInput.loaded =>
        deviationLabel = IF avgDeviation < 100 THEN "Excellent"
                         ELSE IF avgDeviation <= 250 THEN "Good"
                         ELSE "Needs Attention"

\* C17: for every metric whose actual value is present in the reading, 0
\* included, the per-metric deviation is |actual - expected| / expected * 100.
C17_DeviationOfPresentMetric ==
    \A k \in 1..Len(twinData) :
        /\ ~ReadingOfRow(k).temperature.absent =>
               twinData[k].deviationTemp =
                   RelativeDeviation(ReadingOfRow(k).temperature.v,
                                     twinData[k].rawExpectedTemp)
        /\ ~ReadingOfRow(k).pressure.absent =>
               twinData[k].deviationPressure =
                   RelativeDeviation(ReadingOfRow(k).pressure.v,
                                     twinData[k].rawExpectedPressure)

\* C18: a metric that is absent from the reading contributes 0 to the
\* deviation and is absent from the row, and a metric that is present is
\* present in the row, so the row tells an absent metric from a present one.
C18_AbsentMetricRecordedMissing ==
    \A k \in 1..Len(twinData) :
        /\ ReadingOfRow(k).temperature.absent =>
               /\ twinData[k].deviationTemp = 0
               /\ twinData[k].actualTemp.absent
               /\ twinData[k].deviationScore =
                      RoundDiv(twinData[k].deviationPressure, 20)
        /\ ReadingOfRow(k).pressure.absent =>
               /\ twinData[k].deviationPressure = 0
               /\ twinData[k].actualPressure.absent
               /\ twinData[k].deviationScore = RoundDiv(twinData[k].deviationTemp, 20)
        /\ ~ReadingOfRow(k).temperature.absent => ~twinData[k].actualTemp.absent
        /\ ~ReadingOfRow(k).pressure.absent => ~twinData[k].actualPressure.absent

\* Two rows with temperature deviation 0: one whose temperature is absent,
\* one whose temperature is present and equals the expected value.
C18_AbsentBesideExactMatch ==
    /\ Len(twinData) = 2
    /\ ReadingOfRow(1).temperature = Num(twinData[1].rawExpectedTemp)
    /\ twinData[1].deviationTemp = 0
    /\ ReadingOfRow(2).temperature.absent
    /\ twinData[2].deviationTemp = 0

\* The per-metric deviation of an optional measurement as the claims define
\* it: 0 when absent, the relative deviation when present.
DeviationOfMetric(m, expected) ==
    IF m.absent THEN 0 ELSE RelativeDeviation(m.v, expected)

\* C20: the deviation score of every reading is the mean of its temperature
\* and pressure deviations, to the one decimal place the score carries;
\* vibration and flow do not enter it, it is not negative and it is not
\* capped.
C20_ScoreIsMeanOfDeviations ==
    \A k \in 1..Len(twinData) :
        /\ twinData[k].deviationScore =
               RoundDiv(DeviationOfMetric(ReadingOfRow(k).temperature,
                                          twinData[k].rawExpectedTemp)
                        + DeviationOfMetric(ReadingOfRow(k).pressure,
                                            twinData[k].rawExpectedPressure), 20)
        /\ twinData[k].deviationScore >= 0

KnownTypes == {"pump", "compressor", "heat_exchanger"}

StatedFactor(sc) ==
    CASE sc = "load_increase" -> 15
      [] sc = "load_decrease" -> 7
      [] sc = "temp_spike" -> 13
      [] OTHER -> 10

\* C22: when the scenario changes, every row's expected temperature,
\* pressure, vibration and flow (shown in hundredths) moves by exactly the
\* baseline times the difference of the two scenarios' factors (1.5 for
\* load_increase, 0.7 for load_decrease, 1.3 for temp_spike, 1.0 otherwise),
\* so the oscillation term of each row is left as it was.
C22_ScenarioScalesBaselineOnly ==
    [][(twinInput'.scenario # twinInput.scenario /\ Len(twinInput.readings) > 0) =>
        LET base  == BaseValues(twinInput.asset_type)
            delta == StatedFactor(twinInput'.scenario) - StatedFactor(twinInput.scenario)
        IN  /\ Len(twinData') = Len(twinData)
            /\ \A k \in 1..Len(twinData) :
                  /\ 100 * (twinData'[k].expectedTemp - twinData[k].expectedTemp)
                        = base.temp * delta
                  /\ 100 * (twinData'[k].expectedPressure - twinData[k].expectedPressure)
                        = base.pressure * delta
                  /\ 100 * (twinData'[k].expectedVibration - twinData[k].expectedVibration)
                        = base.vibration * delta
                  /\ 100 * (twinData'[k].expectedFlow - twinData[k].expectedFlow)
                        = base.flow * delta]_vars

\* A compressor under the temperature-spike scenario: the second row's
\* expected temperature is 85 * 1.3 + 2 sin(0.1) = 110.70.
C22_CompressorUnderSpike ==
    /\ twinInput.loaded
    /\ twinInput.asset_type = "compressor"
    /\ twinInput.scenario = "temp_spike"
    /\ Len(twinData) >= 2
    /\ twinData[2].expectedTemp = 11070

C29_ExpectedStrictlyPositive ==
    \A k \in 1..Len(twinData) :
        /\ twinData[k].rawExpectedTemp > 0
        /\ twinData[k].rawExpectedPressure > 0

\* The smallest divisor: a pump under load_decrease at index 38, where
\* sin(38 / 8) is almost -1 and the expected pressure is 1.75 - 0.2.
C29_LowestExpectedPressure ==
    /\ twinInput.asset_type = "pump"
    /\ twinInput.scenario = "load_decrease"
    /\ Len(twinData) = 50
    /\ twinData[39].sampleIndex = 38
    /\ twinData[39].rawExpectedPressure = 1550

\* C24: once a health snapshot is held, no step taken while the same asset
\* stays selected leaves the page without one: a stream message with no
\* health part leaves the held snapshot in place.
C24_SnapshotNeverRegresses ==
    [][(healthScore.asset_id # 0 /\ selectedAsset' = selectedAsset) =>
          healthScore'.asset_id # 0]_vars

\* C25: the health_index of the held snapshot is between 0 and 100,
\* whatever the stream and the REST responses carried.
C25_HealthIndexWithinRange ==
    healthScore.asset_id # 0 => healthScore.health_index \in 0..100

\* The live samples of the selected asset that the window holds.
LiveRows(chart) ==
    {k \in 1..Len(chart) : \E j \in 1..Len(appendLog) :
        appendLog[j] = chart[k].time /\ chart[k].asset_id = selectedAsset}

\* C30: a response of loadReadings() or loadHealthScore() that resolves
\* changes the window and the snapshot only to data of the asset selected
\* now, and a history response does not drop live samples the window holds.
C30_LateResponsesDoNotOverwrite ==
    [][/\ (pendingReadings' # pendingReadings /\ pendingReadings' \subseteq pendingReadings
           /\ chartData' # chartData) =>
              /\ \A k \in 1..Len(chartData') : chartData'[k].asset_id = selectedAsset
              /\ \A k \in LiveRows(chartData) :
                    \E j \in 1..Len(chartData') : chartData'[j] = chartData[k]
       /\ (pendingHealth' # pendingHealth /\ pendingHealth' \subseteq pendingHealth
           /\ healthScore' # healthScore) =>
              healthScore'.asset_id = selectedAsset]_vars

\* What handle h has outstanding: its sockets that are connecting or open
\* and its pending reconnect timers.
Outstanding(h) ==
    Cardinality({i \in 1..Len(sockets[h]) :
                    sockets[h][i].readyState \in {"CONNECTING", "OPEN"}})
        + Len(handles[h].timers)

\* A step in which a connection of handle h failed: a close event, or a
\* connect() whose constructor threw.
FailedStep(h) == obs'[h].failuresSinceOpen = obs[h].failuresSinceOpen + 1

\* The timers a failure step of handle h added: one more timer than before,
\* not counting the timer whose firing made the failing connect() call.
TimersAdded(h) ==
    Len(handles'[h].timers) - Len(handles[h].timers)
        + (IF Len(sockets'[h]) = Len(sockets[h]) THEN 1 ELSE 0)

\* C27 as stated: every failed connection of a handle increments its attempt
\* counter by exactly 1 and schedules exactly one reconnect.
C27_EveryFailureReschedules ==
    [][\A h \in 1..Len(handles) : FailedStep(h) =>
          /\ handles'[h].reconnectAttempts = handles[h].reconnectAttempts + 1
          /\ TimersAdded(h) = 1]_vars

\* C27 amended: a failed connection with the counter below 5 increments the
\* counter by exactly 1 and schedules exactly one reconnect, a failed
\* connection with the counter at 5 changes neither; at every moment a
\* handle has at most one outstanding item among its connecting or open
\* sockets and its pending timers, and its counter is between 0 and 5
\* (there is no handle before the first step).
C27_FailureReschedulesWhileRetriesRemain ==
    [][/\ \A h \in 1..Len(handles') :
             /\ Outstanding(h)' <= 1
             /\ handles'[h].reconnectAttempts \in 0..5
       /\ \A h \in 1..Len(handles) : FailedStep(h) =>
             IF handles[h].reconnectAttempts < 5
             THEN /\ handles'[h].reconnectAttempts = handles[h].reconnectAttempts + 1
                  /\ TimersAdded(h) = 1
             ELSE /\ handles'[h].reconnectAttempts = 5
                  /\ TimersAdded(h) = 0]_vars

\* The third failure in a row has scheduled its reconnect.
C27_ThirdFailureScheduled ==
    /\ Len(handles) = 1
    /\ handles[1].reconnectAttempts = 3
    /\ handles[1].timers = <<8000>>
    /\ sockets[1] = <<>>
    /\ obs[1].failuresSinceOpen = 3

\* C28: against a server that accepts every connection and drops it later,
\* however many times it does so, the attempt counter of a handle never
\* exceeds 1, every reconnect is scheduled after 2000 ms, and the handle
\* never gives up.
C28_AcceptThenDropNeverExhausts ==
    \A h \in HandleSet :
        /\ handles[h].reconnectAttempts <= 1
        /\ \A k \in 1..Len(handles[h].timers) : handles[h].timers[k] = 2000
        /\ ~obs[h].gaveUp

\* A connection that was dropped, reopened and dropped again: the second
\* reconnect is pending.
C28_SecondDropPending ==
    \E h \in HandleSet :
        /\ urlOk
        /\ ~obs[h].disconnectCalled
        /\ obs[h].reopened
        /\ sockets[h] = <<>>
        /\ handles[h].timers = <<2000>>
====
